---- MODULE Spec2Model ----
(***************************************************************************)
(* Connection manager of src-tauri/src/lib.rs: the registry                *)
(* AppState.connections (RwLock<HashMap<String, Arc<Mutex<Socket>>>>), the  *)
(* commands connect_device_command, send_data_command and                   *)
(* disconnect_device_command, and the read thread spawned per connection.   *)
(* Commands are split at their lock acquisitions and transport calls, the   *)
(* points where other threads can interleave.                               *)
(***************************************************************************)
EXTENDS Integers, Sequences, FiniteSets, TLC

\* ---- bounds ----
Peers == {"pA"}
Callers == {"c1", "c2"}
\* commands invoked in one run, over all callers
MaxOps == 3
\* sockets alive at the same time (an Arc<Mutex<BluetoothSocket>> not yet dropped)
MaxHandles == 2
\* the chunks a peer's transport delivers ahead of the sink, in order (the spec's
\* test double)
Chunks == <<"AT", "OK">>
\* the payload of a send, written by write_all one byte per write
Data == <<1, 2>>

Handles == 1..MaxHandles

VARIABLES
    registry,   \* AppState.connections: peer -> handle, 0 when the key is absent
    rwReaders,  \* callers holding connections.read()
    rwWriter,   \* caller holding connections.write(), "none" when free
    addr,       \* handle -> peer it was built for
    hstate,     \* handle -> state of the socket
    mutex,      \* handle -> holder of the Arc<Mutex<..>>: "free", "loop" or a caller
    wlog,       \* handle -> bytes the transport accepted from the sends in progress,
                \* each tagged with the caller writing it
    lpc,        \* handle -> position of the read thread spawned for it
    lbuf,       \* handle -> index of the chunk in read_buf
    lwhy,       \* handle -> the read outcome that led to the is_connected check
    levs,       \* handle -> status events emitted by the read thread
    cur,        \* caller -> the command it is executing or has last returned from:
                \* op, peer, pc, hd (the socket Arc it holds), result, evs (status
                \* events it emitted), sock (it built or took a socket), mutated
                \* (it changed the registry), spawned, sent (bytes written), pre
                \* (what held when it started)
    ops,        \* commands started so far
    produced,   \* peer -> chunks the transport returned from read, in order, since
                \* the sink last had them all
    sink,       \* peer -> chunks of the bluetooth-data events, in order, since then
    everConn,   \* peer -> some socket connect() to it has succeeded
    everOk,     \* peer -> some connect command for it has returned Ok
    discSince   \* peer -> a disconnect command returned and no insert followed

vars == <<registry, rwReaders, rwWriter, addr, hstate, mutex, wlog, lpc,
          lbuf, lwhy, levs, cur, ops, produced, sink, everConn, everOk, discSince>>

regVars == <<registry, rwReaders, rwWriter>>
sockVars == <<addr, hstate, mutex, wlog>>
loopVars == <<lpc, lbuf, lwhy, levs>>
dataVars == <<produced, sink>>
histVars == <<everConn, everOk, discSince>>

IdleCall ==
    [op |-> "none", peer |-> "none", pc |-> "idle", hd |-> 0, result |-> "none",
     evs |-> <<>>, sock |-> FALSE, mutated |-> FALSE, spawned |-> FALSE,
     sent |-> 0, pre |-> {}]

Init ==
    /\ registry = [p \in Peers |-> 0]
    /\ rwReaders = {}
    /\ rwWriter = "none"
    /\ addr = [h \in Handles |-> "none"]
    /\ hstate = [h \in Handles |-> "unbuilt"]
    /\ mutex = [h \in Handles |-> "free"]
    /\ wlog = [h \in Handles |-> <<>>]
    /\ lpc = [h \in Handles |-> "none"]
    /\ lbuf = [h \in Handles |-> 0]
    /\ lwhy = [h \in Handles |-> "none"]
    /\ levs = [h \in Handles |-> <<>>]
    /\ cur = [c \in Callers |-> IdleCall]
    /\ ops = 0
    /\ produced = [p \in Peers |-> <<>>]
    /\ sink = [p \in Peers |-> <<>>]
    /\ everConn = [p \in Peers |-> FALSE]
    /\ everOk = [p \in Peers |-> FALSE]
    /\ discSince = [p \in Peers |-> FALSE]

\* ---- the registry map ----
\* mutant: the presence check never finds the key
AlreadyPresentNever(reg, p) == FALSE

\* line 81: connections_lock.contains_key(&address)
AlreadyPresent(reg, p) == reg[p] # 0

\* line 209: connections_lock.get(&address), 0 for None
Lookup(reg, p) == reg[p]

\* line 118: insert(address, arc_socket) replaces whatever the key held
InsertRecord(reg, p, h) == [reg EXCEPT ![p] = h]

\* mutant: the record is looked up but left in the map
TakeRecordKept(reg, p) == reg

\* line 238: the map after connections_lock.remove(&address)
TakeRecord(reg, p) == [reg EXCEPT ![p] = 0]

\* mutant: the read thread ends without removing its key
CleanupRemoveSkipped(reg, p) == reg

\* line 187: the map after remove(&address_clone), whatever record the key holds
CleanupRemove(reg, p) == [reg EXCEPT ![p] = 0]

\* ---- parking_lot locks ----
ReadLockable == rwWriter = "none"

\* mutant: a writer gets the lock while readers hold it
WriteLockableDespiteReaders == rwWriter = "none"

WriteLockable == rwWriter = "none" /\ rwReaders = {}

StartCall(c, kind, p, flags) ==
    [IdleCall EXCEPT !.op = kind, !.peer = p, !.pre = flags]

\* a caller invokes its next command once the previous one has returned
CanStart(c) == cur[c].pc \in {"idle", "done"} /\ ops < MaxOps

\* ---- sockets ----
FreeSlots == {h \in Handles : hstate[h] = "unbuilt"}

\* the slot of the socket build_rfcomm_socket returns
NewHandle == CHOOSE h \in FreeSlots : \A g \in FreeSlots : h <= g

\* ---- connect_device_command ----
\* lines 93-113: what resolving the bonded device, building the socket and
\* connecting it can end in
ConnectOutcomes == {"DiscoveryError", "PeerNotFound", "BuildError",
                    "TransportConnectError", "connected"}

\* mutant: the connect error is not propagated and the command carries on
AfterConnectIgnoringError(outcome) ==
    IF outcome \in {"TransportConnectError", "connected"} THEN "c_insert" ELSE "done"

\* line 113: the ? after connect().map_err(..) returns on failure
AfterConnect(outcome) == IF outcome = "connected" THEN "c_insert" ELSE "done"

\* lines 78-113: the presence check under connections.read(), released at line 91;
\* then the socket is built, locked and connected. The socket is private to the
\* command until it is inserted, and it is dropped when the command returns early.
ConnectCheck(c, p) ==
    /\ CanStart(c)
    /\ ReadLockable
    /\ ops' = ops + 1
    /\ LET call == StartCall(c, "connect", p,
                       (IF everOk[p] THEN {"afterOk"} ELSE {})
                       \cup (IF registry[p] # 0 THEN {"present"} ELSE {}))
       IN IF AlreadyPresent(registry, p)
          THEN /\ cur' = [cur EXCEPT ![c] = [call EXCEPT !.pc = "done",
                              !.result = "Ok", !.evs = <<"already_connected">>]]
               /\ everOk' = [everOk EXCEPT ![p] = TRUE]
               /\ UNCHANGED <<addr, hstate, everConn>>
          ELSE \E outcome \in ConnectOutcomes :
               LET built == outcome \in {"TransportConnectError", "connected"}
                   kept == built /\ AfterConnect(outcome) # "done"
                   h == NewHandle
               IN /\ kept => FreeSlots # {}
                  /\ IF kept
                     THEN /\ addr' = [addr EXCEPT ![h] = p]
                          /\ hstate' = [hstate EXCEPT ![h] =
                                IF outcome = "connected" THEN "connected" ELSE "failed"]
                     ELSE UNCHANGED <<addr, hstate>>
                  /\ everConn' = [everConn EXCEPT ![p] = @ \/ outcome = "connected"]
                  /\ everOk' = everOk
                  /\ cur' = [cur EXCEPT ![c] = [call EXCEPT
                         !.pc = AfterConnect(outcome),
                         !.hd = IF kept THEN h ELSE 0,
                         !.sock = built,
                         !.result = IF outcome = "connected" THEN "none" ELSE outcome,
                         !.evs = IF outcome = "TransportConnectError"
                                 THEN <<"connection_failed">> ELSE <<>>]]
    /\ UNCHANGED <<regVars, mutex, wlog, loopVars, dataVars, discSince>>

\* line 118: state.connections.write().insert(address, arc_socket)
ConnectInsert(c) ==
    /\ cur[c].pc = "c_insert"
    /\ WriteLockable
    /\ registry' = InsertRecord(registry, cur[c].peer, cur[c].hd)
    /\ cur' = [cur EXCEPT ![c] = [@ EXCEPT !.pc = "c_spawn",
                   !.mutated = @ \/ registry' # registry]]
    /\ discSince' = [discSince EXCEPT ![cur[c].peer] = FALSE]
    /\ UNCHANGED <<rwReaders, rwWriter, sockVars, loopVars, ops, dataVars,
                   everConn, everOk>>

\* mutant: no read thread is started
SpawnLoopSkipped(l, h) == l

\* line 133: thread::spawn of the read thread
SpawnLoop(l, h) == [l EXCEPT ![h] = "lock"]

\* lines 120-198: emit "connected", spawn the read thread, return Ok
ConnectSpawn(c) ==
    /\ cur[c].pc = "c_spawn"
    /\ lpc' = SpawnLoop(lpc, cur[c].hd)
    /\ cur' = [cur EXCEPT ![c] = [@ EXCEPT !.pc = "done", !.result = "Ok",
                   !.hd = 0,
                   !.evs = Append(@, "connected"),
                   !.spawned = lpc'[cur[c].hd] # lpc[cur[c].hd]]]
    /\ everOk' = [everOk EXCEPT ![cur[c].peer] = TRUE]
    /\ UNCHANGED <<regVars, sockVars, lbuf, lwhy, levs, ops, dataVars,
                   everConn, discSince>>

\* ---- send_data_command ----
\* lines 207-210: connections.read(), get(address) or "Device not connected"
SendLookup(c, p) ==
    /\ CanStart(c)
    /\ ReadLockable
    /\ ops' = ops + 1
    /\ LET call == StartCall(c, "send", p,
                       (IF discSince[p] THEN {"afterDisc"} ELSE {})
                       \cup (IF everConn[p] THEN {} ELSE {"never"}))
       IN IF Lookup(registry, p) # 0
          THEN /\ cur' = [cur EXCEPT ![c] = [call EXCEPT !.pc = "s_lock",
                              !.hd = Lookup(registry, p), !.sock = TRUE]]
               /\ rwReaders' = rwReaders \cup {c}
          ELSE /\ cur' = [cur EXCEPT ![c] = [call EXCEPT !.pc = "done",
                              !.result = "NotConnected"]]
               /\ rwReaders' = rwReaders
    /\ UNCHANGED <<registry, rwWriter, sockVars, loopVars, dataVars, histVars>>

\* mutant: send writes without waiting for the socket's mutex
SendCanLockAlways(c, h) == TRUE

\* line 212: socket_arc.lock() returns once the mutex is free
SendCanLock(c, h) == mutex[h] = "free"

\* line 212: socket_arc.lock(), still under the registry read lock
SendLock(c) ==
    /\ cur[c].pc = "s_lock"
    /\ SendCanLock(c, cur[c].hd)
    /\ mutex' = [mutex EXCEPT ![cur[c].hd] = c]
    /\ cur' = [cur EXCEPT ![c] = [@ EXCEPT !.pc = "s_write"]]
    /\ UNCHANGED <<regVars, addr, hstate, wlog, loopVars, ops, dataVars,
                   histVars>>

\* the guards of send_data_command are dropped when it returns; the bytes of the
\* finished call leave the record of writes in progress
SendRelease(c, h) ==
    /\ mutex' = [mutex EXCEPT ![h] = IF @ = c THEN "free" ELSE @]
    /\ rwReaders' = rwReaders \ {c}
    /\ LET OfOthers(t) == t # c
       IN wlog' = [wlog EXCEPT ![h] = SelectSeq(@, OfOthers)]

\* mutant: a failed write or flush drops the peer's record
AfterWriteErrorRemoved(reg, p) == [reg EXCEPT ![p] = 0]

\* lines 215-218 and 221-224: the ? returns the write or flush error; the map is
\* only read
AfterWriteError(reg, p) == reg

\* lines 215-218: write_all, one transport write per step; an error ends the call
SendWrite(c) ==
    /\ cur[c].pc = "s_write"
    /\ LET h == cur[c].hd
       IN \E ok \in BOOLEAN :
            /\ ok => hstate[h] = "connected"
            /\ IF ok
               THEN /\ wlog' = [wlog EXCEPT ![h] = Append(@, c)]
                    /\ cur' = [cur EXCEPT ![c] = [@ EXCEPT !.sent = @ + 1,
                           !.pc = IF cur[c].sent + 1 = Len(Data)
                                  THEN "s_flush" ELSE "s_write"]]
                    /\ UNCHANGED <<mutex, rwReaders>>
                    /\ registry' = registry
               ELSE /\ cur' = [cur EXCEPT ![c] = [@ EXCEPT !.pc = "done",
                           !.hd = 0, !.result = "TransportWriteError"]]
                    /\ SendRelease(c, h)
                    /\ registry' = AfterWriteError(registry, cur[c].peer)
    /\ UNCHANGED <<rwWriter, addr, hstate, loopVars, ops, dataVars, histVars>>

\* lines 221-228: flush, then return
SendFlush(c) ==
    /\ cur[c].pc = "s_flush"
    /\ \E ok \in BOOLEAN :
         /\ ok => hstate[cur[c].hd] = "connected"
         /\ cur' = [cur EXCEPT ![c] = [@ EXCEPT !.pc = "done", !.hd = 0,
                !.result = IF ok THEN "Ok" ELSE "TransportWriteError"]]
         /\ registry' = IF ok THEN registry
                        ELSE AfterWriteError(registry, cur[c].peer)
    /\ SendRelease(c, cur[c].hd)
    /\ UNCHANGED <<rwWriter, addr, hstate, loopVars, ops, dataVars, histVars>>

\* ---- disconnect_device_command ----
\* mutant: a disconnect that finds nothing reports success
DisconnectMissingOk == "Ok"

\* line 250: Err("Device not connected") when remove finds nothing
DisconnectMissing == "NotConnected"

\* lines 235-238 and 249-251: connections.write(), remove(address)
DisconnectRemove(c, p) ==
    /\ CanStart(c)
    /\ WriteLockable
    /\ ops' = ops + 1
    /\ LET call == StartCall(c, "disconnect", p,
                       IF everConn[p] THEN {} ELSE {"never"})
       IN IF registry[p] # 0
          THEN /\ registry' = TakeRecord(registry, p)
               /\ rwWriter' = c
               /\ cur' = [cur EXCEPT ![c] = [call EXCEPT !.pc = "d_lock",
                              !.hd = registry[p], !.sock = TRUE,
                              !.mutated = registry' # registry]]
               /\ discSince' = discSince
          ELSE /\ registry' = registry
               /\ rwWriter' = rwWriter
               /\ cur' = [cur EXCEPT ![c] = [call EXCEPT !.pc = "done",
                              !.result = DisconnectMissing]]
               /\ discSince' = [discSince EXCEPT ![p] = TRUE]
    /\ UNCHANGED <<rwReaders, sockVars, loopVars, dataVars, everConn, everOk>>

\* line 239: socket_arc.lock(), still under the registry write lock
DisconnectLock(c) ==
    /\ cur[c].pc = "d_lock"
    /\ mutex[cur[c].hd] = "free"
    /\ mutex' = [mutex EXCEPT ![cur[c].hd] = c]
    /\ cur' = [cur EXCEPT ![c] = [@ EXCEPT !.pc = "d_close"]]
    /\ UNCHANGED <<regVars, addr, hstate, wlog, loopVars, ops, dataVars,
                   histVars>>

\* mutant: a failed close puts the record back
AfterCloseErrorRestored(reg, p, h) == [reg EXCEPT ![p] = h]

\* lines 242-245: the ? returns the close error; the record stays removed
AfterCloseError(reg, p, h) == reg

\* lines 242-248: close; both guards are dropped on return. A close that reports
\* an error may or may not have torn the link down.
DisconnectClose(c) ==
    /\ cur[c].pc = "d_close"
    /\ LET h == cur[c].hd
           p == cur[c].peer
       IN \E ok \in BOOLEAN, torn \in BOOLEAN :
            /\ ok => torn
            /\ hstate' = [hstate EXCEPT ![h] = IF torn THEN "closed" ELSE @]
            /\ registry' = IF ok THEN registry ELSE AfterCloseError(registry, p, h)
            /\ cur' = [cur EXCEPT ![c] = [@ EXCEPT !.pc = "done", !.hd = 0,
                   !.result = IF ok THEN "Ok" ELSE "TransportCloseError"]]
            /\ mutex' = [mutex EXCEPT ![h] = "free"]
            /\ rwWriter' = "none"
            /\ discSince' = [discSince EXCEPT ![p] = TRUE]
    /\ UNCHANGED <<rwReaders, addr, wlog, loopVars, ops, dataVars,
                   everConn, everOk>>

\* ---- the read thread of one connection (lines 133-195) ----
\* line 137: read_socket_arc.lock()
LoopLock(h) ==
    /\ lpc[h] = "lock"
    /\ mutex[h] = "free"
    /\ mutex' = [mutex EXCEPT ![h] = "loop"]
    /\ lpc' = [lpc EXCEPT ![h] = "read"]
    /\ UNCHANGED <<regVars, addr, hstate, wlog, lbuf, lwhy, levs, cur, ops,
                   dataVars, histVars>>

\* what socket.read can return: data only from a live link that has chunks left
ReadOutcomes(h) ==
    {"zero", "timeout", "error"} \cup
    (IF hstate[h] = "connected" /\ Len(produced[addr[h]]) < Len(Chunks)
     THEN {"data"} ELSE {})

\* mutant: the zero and timeout arms keep the guard across the sleep
GuardBeforeSleepKept == "loop"

\* lines 152 and 162: drop(socket) before the sleep and the is_connected check
GuardBeforeSleep == "free"

\* mutant: the thread leaves the loop with the guard still held
GuardAtBreakKept == "loop"

\* line 178: break leaves the loop body, which drops the guard declared in it
GuardAtBreak == "free"

\* lines 138-178: the match on socket.read. The guard is dropped explicitly in the
\* zero and timeout arms and by the break of the error arm.
LoopRead(h) ==
    /\ lpc[h] = "read"
    /\ \E outcome \in ReadOutcomes(h) :
         LET p == addr[h]
             k == Len(produced[p]) + 1
         IN /\ lwhy' = [lwhy EXCEPT ![h] = IF outcome = "data" THEN "none" ELSE outcome]
            /\ IF outcome = "data"
               THEN /\ produced' = [produced EXCEPT ![p] = Append(@, k)]
                    /\ lbuf' = [lbuf EXCEPT ![h] = k]
                    /\ lpc' = [lpc EXCEPT ![h] = "emit"]
                    /\ UNCHANGED <<mutex, levs>>
               ELSE /\ mutex' = [mutex EXCEPT ![h] =
                           IF outcome = "error" THEN GuardAtBreak
                           ELSE GuardBeforeSleep]
                    /\ lpc' = [lpc EXCEPT ![h] =
                           IF outcome = "error" THEN "cleanup" ELSE "chk_lock"]
                    /\ levs' = [levs EXCEPT ![h] =
                           IF outcome = "error" THEN Append(@, "error") ELSE @]
                    /\ UNCHANGED <<produced, lbuf>>
    /\ UNCHANGED <<regVars, addr, hstate, wlog, cur, ops, sink, histVars>>

\* lines 141-148: emit bluetooth-data; the guard is dropped at the end of the
\* iteration
LoopEmit(h) ==
    /\ lpc[h] = "emit"
    /\ LET p == addr[h]
           got == Append(sink[p], lbuf[h])
       IN IF got = produced[p]
          THEN /\ sink' = [sink EXCEPT ![p] = <<>>]
               /\ produced' = [produced EXCEPT ![p] = <<>>]
          ELSE /\ sink' = [sink EXCEPT ![p] = got]
               /\ produced' = produced
    /\ lbuf' = [lbuf EXCEPT ![h] = 0]
    /\ mutex' = [mutex EXCEPT ![h] = "free"]
    /\ lpc' = [lpc EXCEPT ![h] = "lock"]
    /\ UNCHANGED <<regVars, addr, hstate, wlog, lwhy, levs, cur, ops, histVars>>

\* lines 153-154 and 163: after a zero read thread::sleep(50ms) with the guard
\* already dropped, then read_socket_arc.lock() for the is_connected check
LoopCheckLock(h) ==
    /\ lpc[h] = "chk_lock"
    /\ mutex[h] = "free"
    /\ mutex' = [mutex EXCEPT ![h] = "loop"]
    /\ lpc' = [lpc EXCEPT ![h] = "chk"]
    /\ UNCHANGED <<regVars, addr, hstate, wlog, lbuf, lwhy, levs, cur, ops,
                   dataVars, histVars>>

\* is_connected() of the socket: Ok(true), Ok(false) or Err. A closed socket is
\* never connected; an open one reports what the link is at that moment.
IsConnectedResults(h) ==
    IF hstate[h] = "connected" THEN {"true", "false", "err"} ELSE {"false", "err"}

\* !is_connected().unwrap_or(false)
BreaksLoop(r) == r # "true"

\* lines 154-157 and 163-166: is_connected under the lock, break when not connected
LoopIsConnected(h) ==
    /\ lpc[h] = "chk"
    /\ \E r \in IsConnectedResults(h) :
         /\ lpc' = [lpc EXCEPT ![h] = IF BreaksLoop(r) THEN "cleanup" ELSE "lock"]
         /\ lwhy' = [lwhy EXCEPT ![h] = IF BreaksLoop(r) THEN @ ELSE "none"]
    /\ mutex' = [mutex EXCEPT ![h] = "free"]
    /\ UNCHANGED <<regVars, addr, hstate, wlog, lbuf, levs, cur, ops,
                   dataVars, histVars>>

\* line 187: state_arc.connections.write().remove(&address_clone)
LoopCleanup(h) ==
    /\ lpc[h] = "cleanup"
    /\ WriteLockable
    /\ registry' = CleanupRemove(registry, addr[h])
    /\ lpc' = [lpc EXCEPT ![h] = "emit_disc"]
    /\ UNCHANGED <<rwReaders, rwWriter, sockVars, lbuf, lwhy, levs, cur, ops,
                   dataVars, histVars>>

\* mutant: the thread goes back to reading after it emitted "disconnected"
AfterDisconnectedReading == "lock"

\* line 195: the closure of the thread ends after the last emit
AfterDisconnected == "exited"

\* lines 190-195: emit "disconnected"; the thread ends
LoopEmitDisc(h) ==
    /\ lpc[h] = "emit_disc"
    /\ levs' = [levs EXCEPT ![h] = Append(@, "disconnected")]
    /\ lpc' = [lpc EXCEPT ![h] = AfterDisconnected]
    /\ UNCHANGED <<regVars, sockVars, lbuf, lwhy, cur, ops, dataVars, histVars>>

\* the last Arc of a socket is dropped once its read thread has ended, the
\* registry does not hold it and no running command holds a clone: the socket is
\* freed
Referenced(h) ==
    \/ \E p \in Peers : registry[p] = h
    \/ \E c \in Callers : cur[c].hd = h
    \/ lpc[h] \notin {"none", "exited"}

DropSocket(h) ==
    /\ hstate[h] # "unbuilt"
    /\ ~Referenced(h)
    /\ addr' = [addr EXCEPT ![h] = "none"]
    /\ hstate' = [hstate EXCEPT ![h] = "unbuilt"]
    /\ wlog' = [wlog EXCEPT ![h] = <<>>]
    /\ lpc' = [lpc EXCEPT ![h] = "none"]
    /\ lwhy' = [lwhy EXCEPT ![h] = "none"]
    /\ levs' = [levs EXCEPT ![h] = <<>>]
    /\ UNCHANGED <<regVars, mutex, lbuf, cur, ops, dataVars, histVars>>

CallerStep(c) ==
    \/ \E p \in Peers : ConnectCheck(c, p)
    \/ ConnectInsert(c)
    \/ ConnectSpawn(c)
    \/ \E p \in Peers : SendLookup(c, p)
    \/ SendLock(c)
    \/ SendWrite(c)
    \/ SendFlush(c)
    \/ \E p \in Peers : DisconnectRemove(c, p)
    \/ DisconnectLock(c)
    \/ DisconnectClose(c)

LoopStep(h) ==
    \/ LoopLock(h)
    \/ LoopRead(h)
    \/ LoopEmit(h)
    \/ LoopCheckLock(h)
    \/ LoopIsConnected(h)
    \/ LoopCleanup(h)
    \/ LoopEmitDisc(h)

Next ==
    \/ \E c \in Callers : CallerStep(c)
    \/ \E h \in Handles : LoopStep(h)
    \/ \E h \in Handles : DropSocket(h)

Spec == Init /\ [][Next]_vars

\* A command that has started runs to its return and a read thread keeps running:
\* transport calls return and the scheduler runs every thread (weak fairness).
\* parking_lot's Mutex is eventually fair, so a command that waits for a socket
\* mutex the read thread releases again and again gets it (strong fairness of the
\* commands' mutex acquisitions).
CallerProgress(c) ==
    \/ ConnectInsert(c)
    \/ ConnectSpawn(c)
    \/ SendLock(c)
    \/ SendWrite(c)
    \/ SendFlush(c)
    \/ DisconnectLock(c)
    \/ DisconnectClose(c)

\* the liveness runs take their commands from one caller at a time
LiveCallers == {"c1"}

LiveNext ==
    \/ \E c \in LiveCallers : CallerStep(c)
    \/ \E h \in Handles : LoopStep(h)
    \/ \E h \in Handles : DropSocket(h)

FairSpec ==
    /\ Init
    /\ [][LiveNext]_vars
    /\ \A c \in LiveCallers :
          /\ WF_vars(CallerProgress(c))
          /\ SF_vars(SendLock(c))
          /\ SF_vars(DisconnectLock(c))
    /\ \A h \in Handles :
          /\ WF_vars(LoopStep(h))

\* ---- properties ----
LiveLoops(p) == {h \in Handles : addr[h] = p /\ lpc[h] \notin {"none", "exited"}}

HeldConnected(p) ==
    {h \in Handles : addr[h] = p /\ hstate[h] = "connected" /\ Referenced(h)}

\* C1: for every peer at most one read thread is spawned and not yet exited, and
\* at most one connected socket is held by the manager.
C1_AtMostOneConnection ==
    \A p \in Peers :
        /\ Cardinality(LiveLoops(p)) <= 1
        /\ Cardinality(HeldConnected(p)) <= 1

\* C2 as stated: a connect that starts after an earlier connect of the same peer
\* returned Ok ends with already_connected, builds no socket, spawns no thread and
\* leaves the registry alone.
C2_SecondConnectAlreadyConnected ==
    \A c \in Callers :
        (cur[c].op = "connect" /\ "afterOk" \in cur[c].pre) =>
            /\ cur[c].pc = "done"
            /\ cur[c].result = "Ok"
            /\ cur[c].evs = <<"already_connected">>
            /\ ~cur[c].sock
            /\ ~cur[c].spawned
            /\ ~cur[c].mutated

\* C2 amended: a connect that starts after an earlier connect of the same peer
\* returned Ok, while the peer's record is still in the registry, returns Ok with
\* already_connected in that one step, builds no socket, spawns no thread, and the
\* registry still holds the same single record for the peer.
C2_SecondConnectWhilePresent ==
    [][\A c \in Callers :
          (/\ \E p \in Peers : ConnectCheck(c, p)
           /\ everOk[cur'[c].peer]
           /\ registry[cur'[c].peer] # 0)
          => /\ cur'[c].pc = "done"
             /\ cur'[c].result = "Ok"
             /\ cur'[c].evs = <<"already_connected">>
             /\ ~cur'[c].sock
             /\ ~cur'[c].spawned
             /\ registry' = registry
             /\ hstate' = hstate
             /\ lpc' = lpc]_vars

C2_Witness ==
    \E c \in Callers :
        /\ cur[c].op = "connect"
        /\ {"afterOk", "present"} \subseteq cur[c].pre
        /\ cur[c].pc = "done"
        /\ cur[c].evs = <<"already_connected">>
        /\ registry[cur[c].peer] # 0

\* C3: a disconnect that found the record leaves the peer absent from the registry
\* from the removal until it returns, whether close succeeds or reports an error;
\* on a close error it returns that error.
C3_DisconnectRemovesDespiteCloseError ==
    [][\A c \in Callers :
          /\ (cur'[c].op = "disconnect" /\ cur'[c].pc \in {"d_lock", "d_close"})
                => registry'[cur'[c].peer] = 0
          /\ (cur[c].pc = "d_close" /\ cur'[c].pc = "done")
                => /\ registry'[cur[c].peer] = 0
                   /\ cur'[c].result \in {"Ok", "TransportCloseError"}
                   /\ cur'[c].mutated]_vars

C3_Witness ==
    \E c \in Callers :
        /\ cur[c].op = "disconnect"
        /\ cur[c].pc = "done"
        /\ cur[c].result = "TransportCloseError"
        /\ cur[c].mutated
        /\ everOk[cur[c].peer]
        /\ registry[cur[c].peer] = 0

\* C4: a send that starts after a disconnect of the same peer has returned, with no
\* connect having inserted a record for the peer in between, fails with
\* NotConnected in its first step and writes nothing.
C4_SendAfterDisconnectNotConnected ==
    \A c \in Callers :
        (cur[c].op = "send" /\ "afterDisc" \in cur[c].pre) =>
            /\ cur[c].pc = "done"
            /\ cur[c].result = "NotConnected"
            /\ ~cur[c].sock
            /\ cur[c].sent = 0

C4_Witness ==
    \E c \in Callers :
        /\ cur[c].op = "send"
        /\ "afterDisc" \in cur[c].pre
        /\ everOk[cur[c].peer]
        /\ cur[c].pc = "done"
        /\ cur[c].result = "NotConnected"

\* C5: a send or a disconnect for a peer to which no connect has ever succeeded
\* fails with NotConnected, changes no registry entry and touches no socket.
C5_NeverConnectedNotConnected ==
    \A c \in Callers :
        (cur[c].op \in {"send", "disconnect"} /\ "never" \in cur[c].pre) =>
            /\ cur[c].pc = "done"
            /\ cur[c].result = "NotConnected"
            /\ ~cur[c].sock
            /\ cur[c].sent = 0
            /\ ~cur[c].mutated

C5_Witness ==
    \E c, d \in Callers :
        /\ cur[c].op = "send" /\ "never" \in cur[c].pre /\ cur[c].pc = "done"
        /\ cur[d].op = "disconnect" /\ "never" \in cur[d].pre /\ cur[d].pc = "done"

\* threads inside a transport call on socket h
Users(h) ==
    {c \in Callers : cur[c].hd = h /\ cur[c].pc \in {"s_write", "s_flush", "d_close"}}
    \cup (IF lpc[h] \in {"read", "chk"} THEN {"loop"} ELSE {})

\* the bytes of every call form one block of the stream
Contiguous(log) ==
    \A i, j, k \in 1..Len(log) : (i < k /\ k < j /\ log[i] = log[j]) => log[k] = log[i]

\* C6: at most one thread at a time is inside a transport call on one socket, it is
\* the holder of the socket's mutex, and the bytes of every send reach the socket
\* as one contiguous block.
C6_HandleMutualExclusion ==
    \A h \in Handles :
        /\ Cardinality(Users(h)) <= 1
        /\ Users(h) \subseteq {mutex[h]}
        /\ Contiguous(wlog[h])

C6_Witness ==
    \E c, d \in Callers : \E h \in Handles :
        /\ c # d
        /\ cur[c].hd = h /\ cur[c].pc = "s_flush"
        /\ cur[d].hd = h /\ cur[d].pc = "s_lock"
        /\ lpc[h] = "lock"
        /\ wlog[h] = [i \in 1..Len(Data) |-> c]

IsPrefix(a, b) == Len(a) <= Len(b) /\ \A i \in 1..Len(a) : a[i] = b[i]

\* C7: per peer, the bluetooth-data events are the non-empty reads in read order: a
\* prefix of them at any time, all of them once no read thread has a chunk in
\* hand.
C7_DataEventsInReadOrder ==
    \A p \in Peers :
        /\ IsPrefix(sink[p], produced[p])
        /\ Len(produced[p]) - Len(sink[p]) =
              Cardinality({h \in Handles : addr[h] = p /\ lpc[h] = "emit"})

Count(seq, e) == Cardinality({i \in 1..Len(seq) : seq[i] = e})

\* C8: a read thread that got zero bytes and then found the socket not connected
\* eventually exits having emitted disconnected exactly once, and its cleanup
\* leaves the peer absent from the registry.
C8_ZeroReadThenDisconnectedExits ==
    /\ \A h \in Handles :
          (lpc[h] = "cleanup" /\ lwhy[h] = "zero")
              ~> (lpc[h] = "exited" /\ lwhy[h] = "zero"
                  /\ Count(levs[h], "disconnected") = 1)
    /\ [][\A h \in Handles :
            (lpc[h] = "cleanup" /\ lpc'[h] # "cleanup") => registry'[addr[h]] = 0]_vars

C8_Witness ==
    \E h \in Handles :
        /\ lpc[h] = "exited"
        /\ lwhy[h] = "zero"
        /\ levs[h] = <<"disconnected">>
        /\ registry[addr[h]] = 0

\* C9: a connect whose transport connect fails emits connection_failed once,
\* returns the error, inserts nothing and spawns nothing; every record in the
\* registry is a socket whose connect succeeded.
C9_FailedConnectLeavesRegistry ==
    /\ \A c \in Callers :
          (cur[c].op = "connect" /\ cur[c].result = "TransportConnectError") =>
              /\ cur[c].pc = "done"
              /\ cur[c].evs = <<"connection_failed">>
              /\ ~cur[c].mutated
              /\ ~cur[c].spawned
              /\ cur[c].hd = 0
              /\ cur[c].sock
    /\ \A p \in Peers :
          registry[p] # 0 =>
              /\ addr[registry[p]] = p
              /\ hstate[registry[p]] \in {"connected", "closed"}

C9_Witness ==
    \E c \in Callers :
        /\ cur[c].op = "connect"
        /\ cur[c].pc = "done"
        /\ cur[c].result = "TransportConnectError"
        /\ "present" \notin cur[c].pre

\* C10: a connect that has returned Ok either found the peer present and emitted
\* already_connected, or inserted its socket and spawned a read thread on that
\* same socket.
C10_OkMeansPresentOrSpawned ==
    [][\A c \in Callers :
          (/\ cur'[c] # cur[c]
           /\ cur'[c].op = "connect" /\ cur'[c].pc = "done" /\ cur'[c].result = "Ok")
          => \/ /\ "present" \in cur'[c].pre
                /\ cur'[c].evs = <<"already_connected">>
             \/ /\ cur'[c].mutated
                /\ cur'[c].spawned
                /\ cur[c].hd # 0
                /\ addr'[cur[c].hd] = cur'[c].peer
                /\ lpc[cur[c].hd] = "none"
                /\ lpc'[cur[c].hd] = "lock"
                /\ cur'[c].evs = <<"connected">>]_vars

C10_Witness ==
    \E c \in Callers :
        /\ cur[c].op = "connect" /\ cur[c].pc = "done" /\ cur[c].result = "Ok"
        /\ cur[c].spawned
        /\ cur[c].mutated
        /\ \E h \in Handles : registry[cur[c].peer] = h /\ lpc[h] = "read"

\* a step of caller c's send_data_command
SendStep(c) ==
    \/ \E p \in Peers : SendLookup(c, p)
    \/ SendLock(c)
    \/ SendWrite(c)
    \/ SendFlush(c)

\* C11: no step of a send changes the registry, and from its lookup to its return
\* no other thread changes it either, so the send leaves the entries it found;
\* after a failed write or flush the peer's record is still the one looked up.
C11_SendLeavesRegistry ==
    [][\A c \in Callers :
          /\ SendStep(c) => registry' = registry
          /\ cur[c].pc \in {"s_lock", "s_write", "s_flush"} =>
                /\ registry' = registry
                /\ registry[cur[c].peer] = cur[c].hd]_vars

C11_Witness ==
    \E c \in Callers :
        /\ cur[c].op = "send"
        /\ cur[c].pc = "done"
        /\ cur[c].result = "TransportWriteError"
        /\ cur[c].sent = 1
        /\ registry[cur[c].peer] # 0

\* the status event that reflects the outcome of a returned connect or disconnect
OutcomeEvent(call) ==
    IF call.op = "connect"
    THEN (IF call.result = "Ok"
          THEN (IF call.spawned THEN "connected" ELSE "already_connected")
          ELSE IF call.result = "TransportConnectError" THEN "connection_failed"
          ELSE "error")
    ELSE (IF call.result = "Ok" THEN "disconnected" ELSE "error")

\* C12: a returned connect or disconnect that found the peer present, touched a
\* socket or changed the registry has emitted exactly one status event, the one
\* reflecting its outcome; a send has emitted none.
C12_ExactlyOneLifecycleEvent ==
    \A c \in Callers :
        /\ (/\ cur[c].pc = "done"
            /\ cur[c].op \in {"connect", "disconnect"}
            /\ (cur[c].sock \/ cur[c].mutated \/ "present" \in cur[c].pre))
              => cur[c].evs = <<OutcomeEvent(cur[c])>>
        /\ cur[c].op = "send" => cur[c].evs = <<>>

\* C13: a read thread starts only in the step of the connect that emits
\* "connected" for its peer, bluetooth-data events come only from a started read
\* thread that has not emitted "disconnected", and a read thread that has emitted
\* "disconnected" has ended: it emits nothing more and takes no further step until
\* its socket is freed.
C13_EventOrderPerPeer ==
    [][\A h \in Handles :
          /\ (lpc[h] = "none" /\ lpc'[h] # "none")
                => \E c \in Callers :
                      /\ cur[c].pc = "c_spawn" /\ cur[c].hd = h
                      /\ cur[c].peer = addr[h]
                      /\ cur'[c].evs = <<"connected">>
          /\ (\E p \in Peers : sink'[p] # sink[p] \/ produced'[p] # produced[p])
                => \E g \in Handles :
                      /\ lpc[g] \in {"read", "emit"}
                      /\ lpc'[g] # lpc[g]
                      /\ Count(levs[g], "disconnected") = 0
          /\ Count(levs[h], "disconnected") > 0
                => /\ lpc[h] = "exited"
                   /\ Count(levs[h], "disconnected") = 1
                   /\ levs[h][Len(levs[h])] = "disconnected"
                   /\ \/ lpc'[h] = "exited" /\ levs'[h] = levs[h]
                      \/ lpc'[h] = "none" /\ levs'[h] = <<>>]_vars

C13_Witness ==
    \E h, g \in Handles :
        /\ addr[h] = addr[g]
        /\ lpc[h] = "exited"
        /\ levs[h] = <<"error", "disconnected">>
        /\ lpc[g] = "emit"

\* the read thread of socket h is running: spawned and not yet ended
LoopRunning(h) == lpc[h] \notin {"none", "exited"}

\* a connect has inserted socket h and is about to spawn its read thread
AboutToSpawn(h) == \E c \in Callers : cur[c].pc = "c_spawn" /\ cur[c].hd = h

\* C14: the registry holds a record exactly when the read thread of that record is
\* running or about to be spawned: every record has such a thread, and every
\* running read thread finds its own socket under its peer's key.
C14_RecordIffLiveLoop ==
    /\ \A p \in Peers :
          registry[p] # 0 => (LoopRunning(registry[p]) \/ AboutToSpawn(registry[p]))
    /\ \A h \in Handles :
          (LoopRunning(h) \/ AboutToSpawn(h)) => registry[addr[h]] = h

\* caller c holds the registry lock, in read or in write mode
HoldsRegistry(c) == c \in rwReaders \/ rwWriter = c

\* caller c waits for a socket mutex or is inside a transport call
AtSocket(c) == cur[c].pc \in {"s_lock", "s_write", "s_flush", "d_lock", "d_close"}

\* C15: no thread waits for a socket mutex or is inside a transport call while it
\* holds the registry lock.
C15_NoTransportUnderRegistryLock ==
    \A c \in Callers : AtSocket(c) => ~HoldsRegistry(c)

\* C16: the read thread holds its socket's mutex only from a lock() to the end of
\* that read or check, never while it sleeps or between iterations, and a send or
\* disconnect that waits for the mutex eventually gets it, however long the thread
\* keeps reading.
C16_BusyLoopDoesNotStarve ==
    /\ [](\A h \in Handles : mutex[h] = "loop" <=> lpc[h] \in {"read", "emit", "chk"})
    /\ \A c \in LiveCallers :
          /\ (cur[c].pc = "s_lock") ~> (cur[c].pc = "s_write")
          /\ (cur[c].pc = "d_lock") ~> (cur[c].pc = "d_close")

C16_Witness ==
    \E c \in LiveCallers :
        /\ cur[c].pc \in {"s_lock", "d_lock"}
        /\ lpc[cur[c].hd] = "emit"
        /\ mutex[cur[c].hd] = "loop"

\* the step of socket h's read thread that removes its key (line 187)
CleanupStepOf(h) == lpc[h] = "cleanup" /\ lpc'[h] = "emit_disc"

\* C17: once a disconnect has closed socket h, the read thread of h eventually ends
\* having emitted "disconnected" exactly once, and its cleanup finds its record
\* gone from the registry and leaves the registry as it is.
C17_LoopExitsAfterDisconnect ==
    /\ \A h \in Handles :
          (hstate[h] = "closed" /\ LoopRunning(h))
              ~> (lpc[h] = "exited" /\ Count(levs[h], "disconnected") = 1)
    /\ [][\A h \in Handles :
            (CleanupStepOf(h) /\ hstate[h] = "closed")
                => (registry[addr[h]] # h /\ registry' = registry)]_vars

\* C18: the cleanup of the read thread of a socket h that a disconnect has closed
\* removes no record but h's own: a key that by then holds another socket, one
\* that is connected and whose own read thread is running, keeps it.
C18_CleanupRemovesOwnRecordOnly ==
    [][\A h \in Handles :
          (CleanupStepOf(h) /\ hstate[h] = "closed") =>
              \A p \in Peers :
                  (/\ registry[p] \notin {0, h}
                   /\ hstate[registry[p]] = "connected"
                   /\ LoopRunning(registry[p]))
                  => registry'[p] = registry[p]]_vars

\* ---- who waits for whom ----
RegistryHolders == rwReaders \cup (IF rwWriter = "none" THEN {} ELSE {rwWriter})

\* the callers and the read threads (named by their socket) that hold the lock
\* caller c is waiting for
CallerWaitsForCallers(c) ==
    IF cur[c].pc = "c_insert" THEN RegistryHolders \ {c}
    ELSE IF cur[c].pc \in {"s_lock", "d_lock"}
         THEN {mutex[cur[c].hd]} \cap Callers
    ELSE {}

CallerWaitsForLoops(c) ==
    IF cur[c].pc \in {"s_lock", "d_lock"} /\ mutex[cur[c].hd] = "loop"
    THEN {cur[c].hd} ELSE {}

\* the same for the read thread of socket h
LoopWaitsForCallers(h) ==
    IF lpc[h] = "cleanup" THEN RegistryHolders
    ELSE IF lpc[h] \in {"lock", "chk_lock"} THEN {mutex[h]} \cap Callers
    ELSE {}

LoopWaitsForLoops(h) ==
    IF lpc[h] \in {"lock", "chk_lock"} /\ mutex[h] = "loop" THEN {h} ELSE {}

\* the threads that can get going: those that wait for nobody, then those that
\* wait only for threads that can get going, and so on, n rounds
RECURSIVE CanProceed(_)
CanProceed(n) ==
    IF n = 0 THEN [callers |-> {}, loops |-> {}]
    ELSE LET prev == CanProceed(n - 1)
         IN [callers |-> {c \in Callers :
                            /\ CallerWaitsForCallers(c) \subseteq prev.callers
                            /\ CallerWaitsForLoops(c) \subseteq prev.loops},
             loops |-> {h \in Handles :
                            /\ LoopWaitsForCallers(h) \subseteq prev.callers
                            /\ LoopWaitsForLoops(h) \subseteq prev.loops}]

\* C19: a thread that requests the registry lock holds no socket mutex (a command
\* at its start or at its insert, a read thread at its cleanup), and no set of
\* threads wait for each other's locks in a cycle: every waiting thread waits, in
\* the end, for threads that are running.
C19_DeadlockFree ==
    /\ \A c \in Callers :
          cur[c].pc \in {"idle", "done", "c_insert"} =>
              /\ \A h \in Handles : mutex[h] # c
              /\ ~HoldsRegistry(c)
    /\ \A h \in Handles : lpc[h] = "cleanup" => mutex[h] # "loop"
    /\ CanProceed(Cardinality(Callers) + MaxHandles) =
          [callers |-> Callers, loops |-> Handles]

C19_Witness ==
    \E h \in Handles : \E c, d \in Callers :
        /\ lpc[h] = "cleanup"
        /\ c \in rwReaders
        /\ cur[c].pc = "s_lock"
        /\ mutex[cur[c].hd] = d
        /\ cur[d].pc = "s_write"

InSend(c) == cur[c].pc \in {"s_lock", "s_write", "s_flush"}

InDisconnect(c) == cur[c].pc \in {"d_lock", "d_close"}

\* C20: a send holds the registry read lock from its lookup to its return and a
\* disconnect holds the write lock from its removal to its return, so no send is
\* in progress while a disconnect is, a send never writes to or flushes a socket
\* that a disconnect has closed, and a socket is never closed during a send on it.
C20_SendDisconnectSerialized ==
    \A c \in Callers :
        /\ InSend(c) =>
              /\ c \in rwReaders
              /\ rwWriter = "none"
              /\ \A d \in Callers : ~InDisconnect(d)
              /\ hstate[cur[c].hd] # "closed"
              /\ registry[cur[c].peer] = cur[c].hd
        /\ InDisconnect(c) =>
              /\ rwWriter = c
              /\ rwReaders = {}
              /\ \A d \in Callers : d # c => ~InDisconnect(d)

C20_Witness ==
    \E c, d \in Callers :
        /\ cur[c].op = "send" /\ cur[c].pc = "done"
        /\ cur[c].result = "Ok" /\ cur[c].sent = Len(Data)
        /\ cur[d].op = "disconnect" /\ cur[d].pc = "d_close"
        /\ cur[d].peer = cur[c].peer

====
